---- MODULE Spec2Model ----
(***************************************************************************)
(* Model of src/api_server.py: the retrieval-augmented chat backend.       *)
(*                                                                         *)
(* All endpoints are `async def` handlers on one event loop, so a handler  *)
(* runs without interruption from one suspension point (await / yield) to  *)
(* the next.  chat_message, delete_file, get_chat_history,                 *)
(* clear_chat_session and ask_question touch shared state in one such      *)
(* stretch; upload_pdf suspends only in `await file.read()`, before it     *)
(* touches shared state; generate_stream suspends while it waits for the   *)
(* next fragment and at every yield.  One action of the model is one such  *)
(* uninterrupted stretch.                                                  *)
(*                                                                         *)
(* Text is a sequence of tokens; joining strings is concatenation of       *)
(* sequences.                                                              *)
(***************************************************************************)
EXTENDS Integers, Sequences, FiniteSets, TLC

VARIABLES
    uploaded_files,   \* line 35: dict  sanitized name -> [path, size]
    vector_stores,    \* line 36: dict  name -> index (sequence of chunk texts)
    chat_sessions,    \* line 37: dict  session id -> reference to a session object
    heap,             \* the live session objects (line 100): reference -> object
    disk,             \* TMP_FOLDER: dict path -> document written there
    config,           \* keys.txt: the set of keys it holds, or NoFile
    streams,          \* the generate_stream generators, by request number
    nextReq           \* number of chat / chat-stream requests received so far

vars == <<uploaded_files, vector_stores, chat_sessions, heap, disk, config,
          streams, nextReq>>

-----------------------------------------------------------------------------
(* Bounds of the model *)

MaxReqs == 2          \* chat and chat-stream requests in one run
MaxStreams == 1       \* chat-stream requests among them
MaxPriorTurns == 6    \* turns a session holds from earlier requests

-----------------------------------------------------------------------------
(* Program constants *)

MAX_SIZE == 10485760  \* 10 * 1024 * 1024
CHAT_K == 3
ASK_K == 5
HISTORY_WINDOW == 10

RequiredKeys == {"API_KEY", "AI_Agent_URL", "AI_Agent_Stream_URL"}
NoFile == {"<no keys.txt>"}

-----------------------------------------------------------------------------
(* Inputs *)

SessionIds == {"s1", "s2"}
UserMessages == {<<"q1">>, <<"q2">>}

\* A file name: directory part, stem and extension of the last component.
Name(dir, stem, ext) == [dir |-> dir, stem |-> stem, ext |-> ext]
A_PDF == Name(<<>>, "a", "pdf")
UploadNames == {A_PDF, Name(<<"x">>, "a", "pdf"), Name(<<>>, "a", "txt"),
                Name(<<>>, "", "")}
NoName == Name(<<>>, "", "")              \* filename = None / ""
ChatNames == {NoName, A_PDF}

\* A document: what its pages hold (the chunks the splitter cuts it into).
\* "bad" is a file the PDF loader cannot read.
Documents == {"v1", "v2", "bad"}
Payloads == {[doc |-> "v1", size |-> 2048],
             [doc |-> "v2", size |-> MAX_SIZE],
             [doc |-> "bad", size |-> 512],
             [doc |-> "v1", size |-> MAX_SIZE + 1]}

-----------------------------------------------------------------------------
(* Sequences *)

Range(s) == {s[i] : i \in DOMAIN s}

RECURSIVE JoinWithSpaces(_)
\* Mutant of Join: " ".join(parts)
JoinWithSpaces(parts) ==
    IF parts = <<>> THEN <<>>
    ELSE IF Len(parts) = 1 THEN parts[1]
    ELSE parts[1] \o <<" ">> \o JoinWithSpaces(Tail(parts))

RECURSIVE Join(_)
\* "".join(parts): the parts one after the other
Join(parts) ==
    IF parts = <<>> THEN <<>> ELSE Head(parts) \o Join(Tail(parts))

RECURSIVE JoinSep(_, _)
\* sep.join(parts)
JoinSep(parts, sep) ==
    IF parts = <<>> THEN <<>>
    ELSE IF Len(parts) = 1 THEN Head(parts)
    ELSE Head(parts) \o sep \o JoinSep(Tail(parts), sep)

\* Mutant of LastN: s[:n]
FirstN(s, n) ==
    IF Len(s) <= n THEN s ELSE SubSeq(s, 1, n)

\* s[-n:]
LastN(s, n) ==
    IF Len(s) <= n THEN s ELSE SubSeq(s, Len(s) - n + 1, Len(s))

-----------------------------------------------------------------------------
(* Dictionaries *)

EmptyDict == <<>>
Put(d, k, v) == [x \in (DOMAIN d) \cup {k} |-> IF x = k THEN v ELSE d[x]]
Pop(d, k) == [x \in (DOMAIN d) \ {k} |-> d[x]]

-----------------------------------------------------------------------------
(* File names (lines 179, 189, 190) *)

Lower(ext) == IF ext = "PDF" THEN "pdf" ELSE ext

\* file.filename and file.filename.lower().endswith(".pdf")
IsPdfName(name) == name # NoName /\ Lower(name.ext) = "pdf"

\* os.path.basename(file.filename)
Basename(name) == Name(<<>>, name.stem, name.ext)

\* os.path.join(TMP_FOLDER, sanitized_filename)
PathOf(name) == Name(<<"./tmp_uploads">>, name.stem, name.ext)

-----------------------------------------------------------------------------
(* Ingestion and retrieval (lines 78-88, 242-245) *)

\* loader.load() followed by splitter.split_documents(): the chunk texts
ChunksOf(doc) ==
    CASE doc = "v1" -> <<"c1", "c2", "c3", "c4">>
      [] doc = "v2" -> <<"c3", "c5">>
      [] doc = "v3" -> <<"c6", "c5", "c4", "c3", "c2", "c1">>
      [] OTHER -> <<>>

\* loader.load() raises on a file it cannot read
Loadable(doc) == doc # "bad"

ChunkNum(c) ==
    CASE c = "c1" -> 1 [] c = "c2" -> 2 [] c = "c3" -> 3 [] c = "c4" -> 4
      [] c = "c6" -> 6 [] OTHER -> 5

\* distance between the embedding of a query and that of a chunk
Distance(q, c) == (ChunkNum(c) * (IF q = <<"q1">> THEN 1 ELSE 3) + 1) % 4

RemoveAt(s, i) == SubSeq(s, 1, i - 1) \o SubSeq(s, i + 1, Len(s))

RECURSIVE TopK(_, _, _)
\* vector_store.as_retriever(k).get_relevant_documents(q): the k nearest
\* chunks, nearest first
TopK(index, q, k) ==
    IF k = 0 \/ index = <<>> THEN <<>>
    ELSE LET best == CHOOSE i \in DOMAIN index :
                        \A j \in DOMAIN index :
                            \/ Distance(q, index[i]) < Distance(q, index[j])
                            \/ /\ Distance(q, index[i]) = Distance(q, index[j])
                               /\ i <= j
         IN  <<index[best]>> \o TopK(RemoveAt(index, best), q, k - 1)

\* [doc.page_content for doc in relevant_docs]
Sources(filename, message) == TopK(vector_stores[filename], message, CHAT_K)

\* "\n\n".join([doc.page_content for doc in relevant_docs])
Context(sources) ==
    JoinSep([i \in DOMAIN sources |-> <<sources[i]>>], <<"\n\n">>)

-----------------------------------------------------------------------------
(* Sessions (lines 66-75, 91-110) *)

\* load_config() returns instead of raising
ConfigOk == config # NoFile /\ RequiredKeys \subseteq config

Message(role, content, req) == [role |-> role, content |-> content, req |-> req]

\* lines 100-109; the model client and the creation time are left out
NewSession == [memory |-> <<>>, message_count |-> 0]

\* The reference of the object that line 100 builds: the first one free
FreshRef ==
    CHOOSE r \in 1..(Cardinality(DOMAIN heap) + 1) : r \notin DOMAIN heap

\* An object lives as long as the session table or the frame of a generator
\* that has not finished refers to it
Collect(objects, sessions, generators) ==
    [r \in {x \in DOMAIN objects :
                \/ \E s \in DOMAIN sessions : sessions[s] = x
                \/ \E p \in DOMAIN generators : generators[p].session = x}
        |-> objects[r]]

\* Mutant of get_or_create_session: the session is stored before keys.txt
\* is read
get_or_create_stores_first(session_id) ==
    IF session_id \in DOMAIN chat_sessions
    THEN [ok |-> TRUE, session |-> chat_sessions[session_id],
          chat_sessions |-> chat_sessions, heap |-> heap]
    ELSE [ok |-> ConfigOk, session |-> FreshRef,
          chat_sessions |-> Put(chat_sessions, session_id, FreshRef),
          heap |-> Put(heap, FreshRef, NewSession)]

\* The session table and the heap after get_or_create_session(session_id),
\* with the reference it returns; ok = FALSE when load_config raised.
get_or_create_session(session_id) ==
    IF session_id \in DOMAIN chat_sessions
    THEN [ok |-> TRUE, session |-> chat_sessions[session_id],
          chat_sessions |-> chat_sessions, heap |-> heap]
    ELSE IF ~ConfigOk
    THEN [ok |-> FALSE, session |-> 0,
          chat_sessions |-> chat_sessions, heap |-> heap]
    ELSE [ok |-> TRUE, session |-> FreshRef,
          chat_sessions |-> Put(chat_sessions, session_id, FreshRef),
          heap |-> Put(heap, FreshRef, NewSession)]

\* Mutant of AddTurn: the messages are recorded, the counter is left alone
AddTurnWithoutCount(sess, message, response, req) ==
    [memory |-> sess.memory \o <<Message("human", message, req),
                                  Message("ai", response, req)>>,
     message_count |-> sess.message_count]

\* Mutant of AddTurn: the two messages are inserted in front of the others
AddTurnInFront(sess, message, response, req) ==
    [memory |-> <<Message("human", message, req),
                  Message("ai", response, req)>> \o sess.memory,
     message_count |-> sess.message_count + 1]

\* lines 253-255 and 297-299: the turn is recorded, the counter goes up
AddTurn(sess, message, response, req) ==
    [memory |-> Append(Append(sess.memory, Message("human", message, req)),
                       Message("ai", response, req)),
     message_count |-> sess.message_count + 1]

-----------------------------------------------------------------------------
(* Prompt (lines 113-147) *)

RenderMessage(m) ==
    <<IF m.role = "human" THEN "User:" ELSE "Assistant:">> \o m.content

HistoryText(history_messages) ==
    IF history_messages = <<>> THEN <<>>
    ELSE LET recent == LastN(history_messages, HISTORY_WINDOW)
         IN  <<"Previous conversation:">>
             \o JoinSep([i \in DOMAIN recent |-> RenderMessage(recent[i])],
                        <<"\n">>)

build_strict_prompt(context, history_messages, user_message) ==
    <<"SYSTEM">>
    \o (IF context # <<>> THEN <<"Document Context:">> \o context ELSE <<>>)
    \o HistoryText(history_messages)
    \o <<"User:">> \o user_message \o <<"Assistant:">>

-----------------------------------------------------------------------------
(* Model gateway: custom_langchain.MyDualEndpointLLM, a deterministic      *)
(* backend.  invoke returns the whole answer; stream delivers the same     *)
(* answer cut into fragments.                                              *)

Invoke(prompt) ==
    <<prompt[Len(prompt) - 1],
      IF "Document Context:" \in Range(prompt) THEN "grounded"
      ELSE IF "Previous conversation:" \in Range(prompt) THEN "again"
      ELSE "first">>

-----------------------------------------------------------------------------
(* Responses *)

\* {"role": ..., "content": ...} for m in session["memory"].chat_memory.messages
Shown(memory) ==
    [i \in DOMAIN memory |->
        [role |-> IF memory[i].role = "human" THEN "user" ELSE "assistant",
         content |-> memory[i].content]]

-----------------------------------------------------------------------------
(* Streams: the state of one generate_stream generator *)

Event(kind, content, success, sources) ==
    [kind |-> kind, content |-> content, success |-> success, sources |-> sources]

\* data: {"content": chunk}
ChunkEvent(chunk) == Event("chunk", chunk, TRUE, <<>>)
\* data: {"content": full_response, "sources": ..., "success": true}
FinalEvent(content, sources) == Event("terminal", content, TRUE, sources)
\* data: {"content": "Error: ...", "success": false}
ErrorEvent == Event("terminal", <<"Error:">>, FALSE, <<>>)
\* data: [DONE]
DoneEvent == Event("done", <<>>, TRUE, <<>>)

IdleStream ==
    [pc |-> "idle", session_id |-> "", message |-> <<>>, filename |-> NoName,
     session |-> 0, sources |-> <<>>, prompt |-> <<>>, response_chunks |-> <<>>,
     pending |-> <<>>, events |-> <<>>, committed_at |-> -1]

-----------------------------------------------------------------------------
(* Initial state: empty registries (lines 35-37), empty TMP_FOLDER *)

ConfigChoices ==
    {RequiredKeys, NoFile} \cup {RequiredKeys \ {k} : k \in RequiredKeys}

Init ==
    /\ uploaded_files = EmptyDict
    /\ vector_stores = EmptyDict
    /\ chat_sessions = EmptyDict
    /\ heap = EmptyDict
    /\ disk = EmptyDict
    /\ config \in ConfigChoices
    /\ streams = [p \in 1..MaxReqs |-> IdleStream]
    /\ nextReq = 0

-----------------------------------------------------------------------------
(* POST /chat (lines 224-264) *)

ChatOutcome(status, content, sources, sessions, objects) ==
    [status |-> status, content |-> content, sources |-> sources,
     chat_sessions |-> sessions, heap |-> objects]

\* fault: "none", or the call that raises ("retrieval", "llm")
chat_message(req, session_id, message, filename, fault) ==
    IF filename # NoName /\ filename \notin DOMAIN vector_stores
    THEN ChatOutcome(400, <<"PDF not found.">>, <<>>, chat_sessions, heap)
    ELSE LET g == get_or_create_session(session_id)
         IN  IF ~g.ok
             THEN ChatOutcome(500, <<"Chat error:">>, <<>>, chat_sessions, heap)
             ELSE IF fault = "retrieval" /\ filename # NoName
             THEN ChatOutcome(500, <<"Chat error:">>, <<>>, g.chat_sessions, g.heap)
             ELSE LET sources == IF filename # NoName
                                 THEN Sources(filename, message) ELSE <<>>
                      prompt == build_strict_prompt(Context(sources),
                                    g.heap[g.session].memory, message)
                      response == Invoke(prompt)
                  IN  IF fault = "llm"
                      THEN ChatOutcome(500, <<"Chat error:">>, <<>>,
                                       g.chat_sessions, g.heap)
                      ELSE ChatOutcome(200, response, sources, g.chat_sessions,
                               [g.heap EXCEPT ![g.session] =
                                   AddTurn(@, message, response, req)])

Chat(session_id, message, filename, fault) ==
    /\ nextReq < MaxReqs
    /\ LET r == chat_message(nextReq + 1, session_id, message, filename, fault)
       IN  /\ chat_sessions' = r.chat_sessions
           /\ heap' = r.heap
    /\ nextReq' = nextReq + 1
    /\ UNCHANGED <<uploaded_files, vector_stores, disk, config, streams>>

-----------------------------------------------------------------------------
(* GET /chat/history (lines 323-337), POST /chat/clear (lines 340-345) *)

get_chat_history(session_id) ==
    IF session_id \notin DOMAIN chat_sessions THEN <<>>
    ELSE Shown(heap[chat_sessions[session_id]].memory)

\* the handler reads the session table and changes nothing
History(session_id) ==
    /\ get_chat_history(session_id) \in Seq([role : {"user", "assistant"},
                                             content : Seq(STRING)])
    /\ UNCHANGED vars

\* Mutant of clear_chat_session: the entry is kept
clear_keeps_entry(session_id) == chat_sessions

\* the session table after clear_chat_session(session_id)
clear_chat_session(session_id) ==
    IF session_id \in DOMAIN chat_sessions
    THEN Pop(chat_sessions, session_id) ELSE chat_sessions

Clear(session_id) ==
    /\ chat_sessions' = clear_chat_session(session_id)
    /\ heap' = Collect(heap, chat_sessions', streams)
    /\ UNCHANGED <<uploaded_files, vector_stores, disk, config, streams, nextReq>>

-----------------------------------------------------------------------------
(* POST /upload (lines 177-208), DELETE /delete_file (lines 211-221) *)

\* Mutant of process_pdf_and_create_vectorstore: the new chunks are added to
\* the index the name already has
process_pdf_and_merge(stores, doc, filename) ==
    Put(stores, filename,
        (IF filename \in DOMAIN stores THEN stores[filename] ELSE <<>>)
        \o ChunksOf(doc))

\* The index registry after process_pdf_and_create_vectorstore (line 87)
process_pdf_and_create_vectorstore(stores, doc, filename) ==
    Put(stores, filename, ChunksOf(doc))

UploadOutcome(status, files, stores, stored) ==
    [status |-> status, uploaded_files |-> files, vector_stores |-> stores,
     disk |-> stored]

\* Mutant of upload_pdf: the size is checked after the file is written
upload_pdf_checks_size_late(name, payload, fault) ==
    IF ~IsPdfName(name)
    THEN UploadOutcome(400, uploaded_files, vector_stores, disk)
    ELSE IF fault = "write"
    THEN UploadOutcome(500, uploaded_files, vector_stores, disk)
    ELSE LET sanitized_filename == Basename(name)
             file_path == PathOf(sanitized_filename)
             written == Put(disk, file_path, payload.doc)
         IN  IF payload.size > MAX_SIZE
             THEN UploadOutcome(400, uploaded_files, vector_stores, written)
             ELSE IF ~Loadable(payload.doc) \/ fault = "embed"
             THEN UploadOutcome(500, uploaded_files, vector_stores, written)
             ELSE UploadOutcome(200,
                      Put(uploaded_files, sanitized_filename,
                          [path |-> file_path, size |-> payload.size]),
                      Put(vector_stores, sanitized_filename,
                          ChunksOf(payload.doc)),
                      written)

\* fault: "none", or the call that raises ("write": open / f.write,
\* "embed": the embedding model or FAISS)
upload_pdf(name, payload, fault) ==
    IF ~IsPdfName(name) \/ payload.size > MAX_SIZE
    THEN UploadOutcome(400, uploaded_files, vector_stores, disk)
    ELSE IF fault = "write"
    THEN UploadOutcome(500, uploaded_files, vector_stores, disk)
    ELSE LET sanitized_filename == Basename(name)
             file_path == PathOf(sanitized_filename)
             written == Put(disk, file_path, payload.doc)
         IN  IF ~Loadable(payload.doc) \/ fault = "embed"
             THEN UploadOutcome(500, uploaded_files, vector_stores, written)
             ELSE UploadOutcome(200,
                      Put(uploaded_files, sanitized_filename,
                          [path |-> file_path, size |-> payload.size]),
                      process_pdf_and_create_vectorstore(vector_stores,
                          payload.doc, sanitized_filename),
                      written)

Upload(name, payload, fault) ==
    /\ fault # "none" => IsPdfName(name) /\ payload.size <= MAX_SIZE
    /\ LET r == upload_pdf(name, payload, fault)
       IN  /\ uploaded_files' = r.uploaded_files
           /\ vector_stores' = r.vector_stores
           /\ disk' = r.disk
    /\ UNCHANGED <<chat_sessions, heap, config, streams, nextReq>>

DeleteOutcome(success, files, stores, stored) ==
    [success |-> success, uploaded_files |-> files, vector_stores |-> stores,
     disk |-> stored]

\* Mutant of delete_file: the index is left in vector_stores
delete_file_keeps_index(filename, fault) ==
    IF filename \in DOMAIN uploaded_files
       /\ uploaded_files[filename].path \in DOMAIN disk
    THEN DeleteOutcome(fault # "remove", Pop(uploaded_files, filename),
                       vector_stores,
                       IF fault = "remove" THEN disk
                       ELSE Pop(disk, uploaded_files[filename].path))
    ELSE DeleteOutcome(FALSE, Pop(uploaded_files, filename), vector_stores, disk)

\* Mutant of delete_file: a name that is not registered is reported deleted
delete_file_reports_success(filename, fault) ==
    LET files == Pop(uploaded_files, filename)
        stores == Pop(vector_stores, filename)
    IN  IF filename \in DOMAIN uploaded_files
           /\ uploaded_files[filename].path \in DOMAIN disk
        THEN IF fault = "remove"
             THEN DeleteOutcome(FALSE, files, stores, disk)
             ELSE DeleteOutcome(TRUE, files, stores,
                                Pop(disk, uploaded_files[filename].path))
        ELSE DeleteOutcome(TRUE, files, stores, disk)

\* fault: "none", or "remove" when os.remove raises
delete_file(filename, fault) ==
    LET files == Pop(uploaded_files, filename)
        stores == Pop(vector_stores, filename)
    IN  IF filename \in DOMAIN uploaded_files
           /\ uploaded_files[filename].path \in DOMAIN disk
        THEN IF fault = "remove"
             THEN DeleteOutcome(FALSE, files, stores, disk)
             ELSE DeleteOutcome(TRUE, files, stores,
                                Pop(disk, uploaded_files[filename].path))
        ELSE DeleteOutcome(FALSE, files, stores, disk)

Delete(filename, fault) ==
    /\ LET r == delete_file(filename, fault)
       IN  /\ uploaded_files' = r.uploaded_files
           /\ vector_stores' = r.vector_stores
           /\ disk' = r.disk
    /\ UNCHANGED <<chat_sessions, heap, config, streams, nextReq>>

-----------------------------------------------------------------------------
(* POST /ask (lines 348-377) *)

\* the prompt of the "stuff" question-answering chain
QAPrompt(context, question) ==
    <<"Use the following pieces of context">> \o context
    \o <<"Question:">> \o question \o <<"Helpful Answer:">>

AskOutcome(status, answer, source_chunks) ==
    [status |-> status, answer |-> answer, source_chunks |-> source_chunks]

\* Mutant of ask_question: the retriever is built with the k of the chat
\* endpoints
ask_question_with_chat_k(filename, question, fault) ==
    IF filename \notin DOMAIN vector_stores
    THEN AskOutcome(400, <<"PDF not found.">>, <<>>)
    ELSE IF ~ConfigOk \/ fault = "llm"
    THEN AskOutcome(500, <<"Error processing question:">>, <<>>)
    ELSE LET docs == TopK(vector_stores[filename], question, CHAT_K)
         IN  AskOutcome(200, Invoke(QAPrompt(Context(docs), question)), docs)

ask_question(filename, question, fault) ==
    IF filename \notin DOMAIN vector_stores
    THEN AskOutcome(400, <<"PDF not found.">>, <<>>)
    ELSE IF ~ConfigOk \/ fault = "llm"
    THEN AskOutcome(500, <<"Error processing question:">>, <<>>)
    ELSE LET docs == TopK(vector_stores[filename], question, ASK_K)
         IN  AskOutcome(200, Invoke(QAPrompt(Context(docs), question)), docs)

\* the handler reads the index registry and keys.txt and changes nothing
Ask(filename, question, fault) ==
    /\ ask_question(filename, question, fault).status \in {200, 400, 500}
    /\ UNCHANGED vars

-----------------------------------------------------------------------------
(* POST /chat/stream (lines 267-320): generate_stream, one action for each  *)
(* stretch between two suspension points                                   *)

StreamsStarted == Cardinality({p \in DOMAIN streams : streams[p].pc # "idle"})

\* What is left of a generator that has finished: what it sent
Finished(stream, pc) ==
    [IdleStream EXCEPT !.pc = pc, !.events = stream.events,
                       !.committed_at = stream.committed_at]

\* lines 275-292, up to the wait for the first fragment.  An exception goes
\* to the handler of line 311, which yields the error event.
StreamStart(session_id, message, filename, fault) ==
    /\ nextReq < MaxReqs
    /\ StreamsStarted < MaxStreams
    /\ LET p == nextReq + 1
           g == get_or_create_session(session_id)
           begun == [IdleStream EXCEPT !.session_id = session_id,
                                       !.message = message,
                                       !.filename = filename]
           raised == [begun EXCEPT !.pc = "error_yielded",
                                   !.events = <<ErrorEvent>>]
       IN  IF ~g.ok
           THEN /\ streams' = [streams EXCEPT ![p] = raised]
                /\ UNCHANGED <<chat_sessions, heap>>
           ELSE /\ chat_sessions' = g.chat_sessions
                /\ heap' = g.heap
                /\ IF filename # NoName
                      /\ (filename \notin DOMAIN vector_stores \/ fault = "retrieval")
                   THEN streams' = [streams EXCEPT ![p] =
                                       [raised EXCEPT !.session = g.session]]
                   ELSE LET sources == IF filename # NoName
                                       THEN Sources(filename, message) ELSE <<>>
                            prompt == build_strict_prompt(Context(sources),
                                          g.heap[g.session].memory, message)
                        IN  streams' = [streams EXCEPT ![p] =
                                [begun EXCEPT !.pc = "streaming",
                                              !.session = g.session,
                                              !.sources = sources,
                                              !.prompt = prompt,
                                              !.pending = Invoke(prompt)]]
    /\ nextReq' = nextReq + 1
    /\ UNCHANGED <<uploaded_files, vector_stores, disk, config>>

\* Mutant of StreamChunk: each fragment is written to the conversation
\* memory as it arrives
StreamChunkRecords(p, n) ==
    /\ streams[p].pc = "streaming"
    /\ n \in 1..Len(streams[p].pending)
    /\ LET chunk == SubSeq(streams[p].pending, 1, n)
       IN  /\ streams' = [streams EXCEPT
                  ![p].response_chunks = Append(@, chunk),
                  ![p].events = Append(@, ChunkEvent(chunk)),
                  ![p].pending = SubSeq(@, n + 1, Len(@))]
           /\ heap' = [heap EXCEPT ![streams[p].session].memory =
                          Append(@, Message("ai", chunk, p))]
    /\ UNCHANGED <<uploaded_files, vector_stores, chat_sessions, disk, config,
                   nextReq>>

\* lines 292-294: the next fragment (the first n tokens not yet delivered)
\* arrives, is kept and is forwarded
StreamChunk(p, n) ==
    /\ streams[p].pc = "streaming"
    /\ n \in 1..Len(streams[p].pending)
    /\ LET chunk == SubSeq(streams[p].pending, 1, n)
       IN  streams' = [streams EXCEPT
               ![p].response_chunks = Append(@, chunk),
               ![p].events = Append(@, ChunkEvent(chunk)),
               ![p].pending = SubSeq(@, n + 1, Len(@))]
    /\ UNCHANGED <<uploaded_files, vector_stores, chat_sessions, heap, disk,
                   config, nextReq>>

\* Mutant of StreamFinish: the final event is yielded before the memory is
\* updated
StreamFinishYieldsFirst(p) ==
    /\ streams[p].pc = "streaming"
    /\ streams[p].pending = <<>>
    /\ streams' = [streams EXCEPT
           ![p].pc = "final_yielded",
           ![p].events = Append(@, FinalEvent(Join(streams[p].response_chunks),
                                              streams[p].sources))]
    /\ UNCHANGED <<uploaded_files, vector_stores, chat_sessions, heap, disk,
                   config, nextReq>>

\* lines 296-308: the fragment sequence is over; the turn is recorded in the
\* session object fetched at line 275, then the final event is yielded
\* Mutant of StreamFinish: the session is looked up in the table again when
\* the turn is recorded
StreamFinishLooksUp(p) ==
    /\ streams[p].pc = "streaming"
    /\ streams[p].pending = <<>>
    /\ LET full_response == Join(streams[p].response_chunks)
           session == IF streams[p].session_id \in DOMAIN chat_sessions
                      THEN chat_sessions[streams[p].session_id]
                      ELSE streams[p].session
       IN  /\ heap' = [heap EXCEPT ![session] =
                          AddTurn(@, streams[p].message, full_response, p)]
           /\ streams' = [streams EXCEPT
                  ![p].pc = "final_yielded",
                  ![p].committed_at = Len(streams[p].events),
                  ![p].events = Append(@, FinalEvent(full_response,
                                                     streams[p].sources))]
    /\ UNCHANGED <<uploaded_files, vector_stores, chat_sessions, disk, config,
                   nextReq>>

StreamFinish(p) ==
    /\ streams[p].pc = "streaming"
    /\ streams[p].pending = <<>>
    /\ LET full_response == Join(streams[p].response_chunks)
       IN  /\ heap' = [heap EXCEPT ![streams[p].session] =
                          AddTurn(@, streams[p].message, full_response, p)]
           /\ streams' = [streams EXCEPT
                  ![p].pc = "final_yielded",
                  ![p].committed_at = Len(streams[p].events),
                  ![p].events = Append(@, FinalEvent(full_response,
                                                     streams[p].sources))]
    /\ UNCHANGED <<uploaded_files, vector_stores, chat_sessions, disk, config,
                   nextReq>>

\* Mutant of StreamFail: the handler records what had arrived
StreamFailRecordsPartial(p) ==
    /\ streams[p].pc = "streaming"
    /\ streams' = [streams EXCEPT ![p].pc = "error_yielded",
                                  ![p].events = Append(@, ErrorEvent)]
    /\ heap' = [heap EXCEPT ![streams[p].session] =
                   AddTurn(@, streams[p].message,
                           Join(streams[p].response_chunks), p)]
    /\ UNCHANGED <<uploaded_files, vector_stores, chat_sessions, disk, config,
                   nextReq>>

\* Mutant of StreamFail: the exception leaves the generator and the
\* connection is closed
StreamFailCloses(p) ==
    /\ streams[p].pc = "streaming"
    /\ streams' = [streams EXCEPT ![p] = Finished(@, "done")]
    /\ heap' = Collect(heap, chat_sessions, streams')
    /\ UNCHANGED <<uploaded_files, vector_stores, chat_sessions, disk, config,
                   nextReq>>

\* lines 311-317: llm.stream raises while a fragment is awaited
StreamFail(p) ==
    /\ streams[p].pc = "streaming"
    /\ streams' = [streams EXCEPT ![p].pc = "error_yielded",
                                  ![p].events = Append(@, ErrorEvent)]
    /\ UNCHANGED <<uploaded_files, vector_stores, chat_sessions, heap, disk,
                   config, nextReq>>

\* lines 309 and 318: the end-of-stream marker
StreamDone(p) ==
    /\ streams[p].pc \in {"final_yielded", "error_yielded"}
    /\ streams' = [streams EXCEPT ![p] =
                       [Finished(@, "done") EXCEPT
                           !.events = Append(@, DoneEvent)]]
    /\ heap' = Collect(heap, chat_sessions, streams')
    /\ UNCHANGED <<uploaded_files, vector_stores, chat_sessions, disk, config,
                   nextReq>>

\* Mutant of StreamDisconnect: a `finally` records what had arrived
StreamDisconnectRecords(p) ==
    /\ streams[p].pc \in {"streaming", "final_yielded", "error_yielded"}
    /\ streams' = [streams EXCEPT ![p] = Finished(@, "cancelled")]
    /\ heap' = Collect(
                   IF streams[p].pc = "streaming"
                   THEN [heap EXCEPT ![streams[p].session] =
                            AddTurn(@, streams[p].message,
                                    Join(streams[p].response_chunks), p)]
                   ELSE heap,
                   chat_sessions, streams')
    /\ UNCHANGED <<uploaded_files, vector_stores, chat_sessions, disk, config,
                   nextReq>>

\* line 320: the caller goes away; the response stops iterating the
\* generator, which is closed where it is suspended (GeneratorExit and
\* CancelledError are not caught by `except Exception`)
StreamDisconnect(p) ==
    /\ streams[p].pc \in {"streaming", "final_yielded", "error_yielded"}
    /\ streams' = [streams EXCEPT ![p] = Finished(@, "cancelled")]
    /\ heap' = Collect(heap, chat_sessions, streams')
    /\ UNCHANGED <<uploaded_files, vector_stores, chat_sessions, disk, config,
                   nextReq>>

-----------------------------------------------------------------------------

\* One step of the server, the requests drawn from the given sets
NextOver(sids, msgs, names, uploads, payloads, faults, sizes) ==
    \/ \E s \in sids, m \in msgs, f \in names,
          x \in faults \cap {"none", "retrieval", "llm"} :
           Chat(s, m, f, x)
    \/ \E s \in sids, m \in msgs, f \in names,
          x \in faults \cap {"none", "retrieval"} :
           StreamStart(s, m, f, x)
    \/ \E p \in 1..MaxReqs, n \in sizes : StreamChunk(p, n)
    \/ \E p \in 1..MaxReqs : StreamFinish(p)
    \/ \E p \in 1..MaxReqs : StreamFail(p)
    \/ \E p \in 1..MaxReqs : StreamDone(p)
    \/ \E p \in 1..MaxReqs : StreamDisconnect(p)
    \/ \E s \in sids : History(s)
    \/ \E s \in sids : Clear(s)
    \/ \E f \in uploads, d \in payloads,
          x \in faults \cap {"none", "write", "embed"} :
           Upload(f, d, x)
    \/ \E f \in names, x \in faults \cap {"none", "remove"} : Delete(f, x)
    \/ \E f \in names, q \in msgs, x \in faults \cap {"none", "llm"} :
           Ask(f, q, x)

Faults == {"none", "retrieval", "llm", "write", "embed", "remove"}

FragmentSizes == {1, 2}

Next == NextOver(SessionIds, UserMessages, ChatNames, UploadNames, Payloads,
                 Faults, FragmentSizes)

Spec == Init /\ [][Next]_vars

\* The chat side: chat requests on both sessions with one message, each
\* naming the one document, which is uploaded and deleted; the answer is
\* delivered token by token
NextChat ==
    NextOver(SessionIds, {<<"q1">>}, {A_PDF}, {A_PDF},
             {[doc |-> "v1", size |-> 2048]}, {"none", "retrieval", "llm"}, {1})

SpecChat == Init /\ [][NextChat]_vars

\* The prompt side: chat requests on one session, with and without the
\* document, so that prompts with and without a context and a history occur
NextPrompts ==
    NextOver({"s1"}, {<<"q1">>}, ChatNames, {A_PDF},
             {[doc |-> "v1", size |-> 2048]}, {"none", "retrieval", "llm"}, {1})

SpecPrompts == Init /\ [][NextPrompts]_vars

\* The document side: every upload, delete and ask of one document name;
\* chat requests that name it, on one session with one message, the answer
\* delivered in one piece
NextDocs ==
    NextOver({"s1"}, {<<"q1">>}, {A_PDF}, UploadNames, Payloads,
             {"none", "remove", "embed"}, {2})

SpecDocs == Init /\ [][NextDocs]_vars

\* Re-upload: the one document name with its two readable versions, no
\* fault; chat requests that name it, on one session with one message
NextReupload ==
    NextOver({"s1"}, {<<"q1">>}, {A_PDF}, {A_PDF},
             {[doc |-> "v1", size |-> 2048], [doc |-> "v2", size |-> MAX_SIZE]},
             {"none"}, {2})

SpecReupload == Init /\ [][NextReupload]_vars

RECURSIVE PriorSession(_)
\* The session object after k chat requests without a document, asking q1
\* and q2 in turn (lines 246-255, k times)
PriorSession(k) ==
    IF k = 0 THEN NewSession
    ELSE LET before == PriorSession(k - 1)
             message == IF k % 2 = 1 THEN <<"q1">> ELSE <<"q2">>
             prompt == build_strict_prompt(<<>>, before.memory, message)
         IN  AddTurn(before, message, Invoke(prompt), 0)

\* Long conversations: the server is taken up when session s1 holds no
\* turn, or the turns of MaxPriorTurns earlier chat requests or up to two
\* fewer
InitLong ==
    /\ uploaded_files = EmptyDict
    /\ vector_stores = EmptyDict
    /\ disk = EmptyDict
    /\ config = RequiredKeys
    /\ streams = [p \in 1..MaxReqs |-> IdleStream]
    /\ nextReq = 0
    /\ \E k \in {0} \cup ((MaxPriorTurns - 2)..MaxPriorTurns) :
          IF k = 0 THEN chat_sessions = EmptyDict /\ heap = EmptyDict
          ELSE /\ chat_sessions = Put(EmptyDict, "s1", 1)
               /\ heap = Put(EmptyDict, 1, PriorSession(k))

\* chat requests without a document on that session; the upload is one
\* that is rejected
NextLong ==
    NextOver({"s1"}, {<<"q1">>}, {NoName}, {Name(<<>>, "a", "txt")},
             {[doc |-> "v1", size |-> 2048]}, {"none"}, {2})

SpecLong == InitLong /\ [][NextLong]_vars

\* Questions on a document of four chunks and on one of six, with chat
\* requests on one session
NextAsk ==
    NextOver({"s1"}, {<<"q1">>}, {A_PDF}, {A_PDF},
             {[doc |-> "v1", size |-> 2048], [doc |-> "v3", size |-> 4096]},
             {"none", "llm"}, {2})

SpecAsk == Init /\ [][NextAsk]_vars

\* One step of the generator of request p: the event loop resumes it when
\* the fragment it waits for has arrived (or the call has failed) and the
\* caller has read the event it yielded
StreamStep(p) ==
    \/ \E n \in FragmentSizes : StreamChunk(p, n)
    \/ StreamFinish(p)
    \/ StreamFail(p)
    \/ StreamDone(p)

\* Streams to their end: chat-stream requests on one session that name the
\* document, with every keys.txt, the document live or not; a generator
\* that can take a step eventually takes one
NextStream ==
    NextOver({"s1"}, {<<"q1">>}, {A_PDF}, {A_PDF},
             {[doc |-> "v1", size |-> 2048]}, {"none", "retrieval"}, {1})

SpecStream ==
    /\ Init /\ [][NextStream]_vars
    /\ \A p \in 1..MaxReqs : WF_vars(StreamStep(p))

-----------------------------------------------------------------------------
(* What a caller sees of a session through the session table *)

HistoryOf(s) ==
    IF s \in DOMAIN chat_sessions THEN heap[chat_sessions[s]].memory ELSE <<>>

CountOf(s) ==
    IF s \in DOMAIN chat_sessions THEN heap[chat_sessions[s]].message_count
    ELSE 0

SessionsUntouched ==
    \A s \in SessionIds : /\ HistoryOf(s)' = HistoryOf(s)
                          /\ CountOf(s)' = CountOf(s)

Reqs == 1..MaxReqs

\* the messages request p has recorded, in any live session object
RecordedBy(p) ==
    {<<r, i>> \in (DOMAIN heap) \X (1..(2 * MaxReqs)) :
        i <= Len(heap[r].memory) /\ heap[r].memory[i].req = p}

Terminals(events) == {i \in DOMAIN events : events[i].kind = "terminal"}
Chunks(events) == {i \in DOMAIN events : events[i].kind = "chunk"}

-----------------------------------------------------------------------------
\* C2: a chat request, batch or streaming, that names a document with no live
\* index fails (batch: status 400; streaming: a terminal event with
\* success = false) and leaves the session table and every session as they
\* were; no session is created for a session id not seen before.
C2_UnknownDocumentNoMutation ==
    [][\A s \in SessionIds, m \in UserMessages, f \in ChatNames \ {NoName},
         x \in {"none"} :
          f \notin DOMAIN vector_stores =>
            /\ Chat(s, m, f, x) =>
                 /\ chat_message(nextReq + 1, s, m, f, x).status = 400
                 /\ chat_sessions' = chat_sessions /\ heap' = heap
            /\ StreamStart(s, m, f, x) =>
                 /\ streams'[nextReq + 1].events = <<ErrorEvent>>
                 /\ chat_sessions' = chat_sessions /\ heap' = heap]_vars

\* C3: a batch chat request that fails after validation (status 500) leaves
\* the session table and every session object as they were.
C3_FailedChatNoMutation ==
    [][\A s \in SessionIds, m \in UserMessages, f \in ChatNames,
         x \in {"none", "retrieval", "llm"} :
          (/\ Chat(s, m, f, x)
           /\ chat_message(nextReq + 1, s, m, f, x).status = 500)
          => chat_sessions' = chat_sessions /\ heap' = heap]_vars

Dones(events) == {i \in DOMAIN events : events[i].kind = "done"}

RECURSIVE Concat(_)
\* the contents of the fragment events, one after the other
Concat(events) ==
    IF events = <<>> THEN <<>>
    ELSE (IF Head(events).kind = "chunk" THEN Head(events).content ELSE <<>>)
         \o Concat(Tail(events))

LivePcs == {"streaming", "final_yielded", "error_yielded"}

-----------------------------------------------------------------------------
\* C1: a stream whose fragment sequence fails has sent its fragments, then
\* one terminal event with success = false, then (once it is done) the
\* end-of-stream marker and nothing else; it has recorded no message; and no
\* step of a stream other than the recording of a completed answer changes
\* the history or the counter that any session id shows.
C1_FailedStream(p) ==
    LET ev == streams[p].events
        t == Terminals(ev)
    IN  (\E i \in t : ~ev[i].success) =>
            /\ Cardinality(t) = 1
            /\ streams[p].pc \in {"error_yielded", "done", "cancelled"}
            /\ \A i \in t :
                  /\ \A j \in 1..(i - 1) : ev[j].kind = "chunk"
                  /\ ev[i] = ErrorEvent
                  /\ streams[p].pc # "done" => Len(ev) = i
                  /\ streams[p].pc = "done" =>
                        Len(ev) = i + 1 /\ ev[i + 1] = DoneEvent
            /\ streams[p].committed_at = -1
            /\ RecordedBy(p) = {}

C1_StreamFailureLeavesSession ==
    [][/\ \A p \in Reqs : C1_FailedStream(p)'
       /\ \A p \in Reqs :
             (streams'[p] # streams[p] /\ streams'[p].pc # "final_yielded")
             => SessionsUntouched]_vars

\* a stream failed after a fragment, on a session that holds an earlier turn
C1_Witness ==
    \E p \in Reqs :
        /\ streams[p].pc = "error_yielded"
        /\ streams[p].response_chunks # <<>>
        /\ HistoryOf(streams[p].session_id) # <<>>

-----------------------------------------------------------------------------
\* C4: in every session object the messages come in pairs, a user message
\* immediately followed by the answer recorded by the same request, and no
\* request has recorded more than one pair: no turn is split by the messages
\* of another request.
C4_TurnsAreAtomic ==
    /\ \A r \in DOMAIN heap :
          LET mem == heap[r].memory
          IN  /\ Len(mem) % 2 = 0
              /\ \A i \in DOMAIN mem :
                    i % 2 = 1 => /\ mem[i].role = "human"
                                 /\ mem[i + 1].role = "ai"
                                 /\ mem[i + 1].req = mem[i].req
    /\ \A p \in Reqs : Cardinality(RecordedBy(p)) \in {0, 2}

\* a stream is between two fragments while another request has recorded a
\* turn in its session since it started
C4_Witness ==
    \E p \in Reqs :
        /\ streams[p].pc = "streaming"
        /\ streams[p].response_chunks # <<>>
        /\ "Previous conversation:" \notin Range(streams[p].prompt)
        /\ heap[streams[p].session].memory # <<>>
        /\ streams[p].session_id \in DOMAIN chat_sessions
        /\ chat_sessions[streams[p].session_id] = streams[p].session

-----------------------------------------------------------------------------
\* C6: a stream sends at most one terminal event and at most one
\* end-of-stream marker; every fragment event comes before the terminal
\* event; the marker is the last event and follows the terminal event; and
\* in a successful stream the session was updated after the last fragment
\* event and before the terminal event, which carries the full answer, the
\* sources and success = true.
C6_StreamOrder ==
    \A p \in Reqs :
        LET st == streams[p]
            ev == st.events
            t == Terminals(ev)
            d == Dones(ev)
        IN  /\ Cardinality(t) <= 1 /\ Cardinality(d) <= 1
            /\ \A i \in t : \A j \in Chunks(ev) : j < i
            /\ \A i \in d : i = Len(ev) /\ t = {i - 1}
            /\ (st.pc = "done") <=> (d # {})
            /\ st.pc = "streaming" => t = {} /\ st.committed_at = -1
            /\ (st.committed_at >= 0) <=> (\E i \in t : ev[i].success)
            /\ \A i \in t : ev[i].success =>
                  /\ st.committed_at = i - 1
                  /\ Chunks(ev) = 1..(i - 1)
                  /\ ev[i].content = Concat(ev)
                  /\ st.pc = "final_yielded" =>
                        /\ ev[i].sources = st.sources
                        /\ \E k \in DOMAIN heap[st.session].memory :
                              /\ heap[st.session].memory[k]
                                    = Message("human", st.message, p)
                              /\ heap[st.session].memory[k + 1]
                                    = Message("ai", ev[i].content, p)

\* a stream that sent two fragments, the final event and the marker
C6_Witness ==
    \E p \in Reqs :
        /\ streams[p].pc = "done"
        /\ streams[p].committed_at = 2
        /\ Len(streams[p].events) = 4

-----------------------------------------------------------------------------
\* C7: for the deterministic backend, a stream is started with the prompt,
\* and so with the answer, that batch mode computes for the same request in
\* the same state; the fragments forwarded so far followed by those still to
\* come are that answer; and when the stream has sent its final event, the
\* concatenation of its fragments is the content of the final event, the
\* assistant message recorded in the session and the batch answer.
C7_Stream(p) ==
    LET st == streams[p]
        full == Concat(st.events)
    IN  /\ st.pc = "streaming" => full \o st.pending = Invoke(st.prompt)
        /\ st.pc = "final_yielded" =>
              /\ full = Invoke(st.prompt)
              /\ st.events[Len(st.events)].content = full
              /\ Message("ai", full, p) \in Range(heap[st.session].memory)

C7_StreamEqualsBatch ==
    [][/\ \A p \in Reqs : C7_Stream(p)'
       /\ nextReq' # nextReq =>
          \A s \in SessionIds, m \in UserMessages, f \in ChatNames,
            x \in {"none", "retrieval"} :
             (StreamStart(s, m, f, x) /\ streams'[nextReq + 1].pc = "streaming")
             => /\ chat_message(nextReq + 1, s, m, f, "none").status = 200
                /\ streams'[nextReq + 1].pending
                      = chat_message(nextReq + 1, s, m, f, "none").content]_vars

\* a stream has sent two fragments and the final event
C7_Witness ==
    \E p \in Reqs :
        /\ streams[p].pc = "final_yielded"
        /\ Len(streams[p].response_chunks) = 2

-----------------------------------------------------------------------------
\* C8: when the caller disconnects, the stream sends nothing more, ever, and
\* the disconnection changes no session; a stream that was disconnected
\* before its fragment sequence was over has recorded no message.
C8_DisconnectCommitsNothing ==
    [][\A p \in Reqs :
          /\ streams[p].pc = "cancelled" => streams'[p] = streams[p]
          /\ (streams[p].pc \in LivePcs /\ streams'[p].pc = "cancelled") =>
                /\ streams'[p].events = streams[p].events
                /\ SessionsUntouched
                /\ streams[p].pc = "streaming" =>
                      streams'[p].committed_at = -1
          /\ (streams'[p].pc = "cancelled" /\ streams'[p].committed_at = -1)
                => RecordedBy(p)' = {}]_vars

\* a stream was disconnected after a fragment and before its terminal event
C8_Witness ==
    \E p \in Reqs :
        /\ streams[p].pc = "cancelled"
        /\ Chunks(streams[p].events) # {}
        /\ Terminals(streams[p].events) = {}

-----------------------------------------------------------------------------
\* C5: in every state a request can observe, the document registry and the
\* index registry hold the same names.
C5_DocumentIffIndex == DOMAIN uploaded_files = DOMAIN vector_stores

\* a.pdf is live and its stored file is the unreadable one of a later,
\* failed upload
C5_Witness ==
    /\ A_PDF \in DOMAIN uploaded_files
    /\ PathOf(A_PDF) \in DOMAIN disk
    /\ disk[PathOf(A_PDF)] = "bad"

-----------------------------------------------------------------------------
\* C9: the session table that clear_chat_session returns, which is the table
\* after a clear, does not hold the session, whatever the session held; and
\* whenever a session id is not in the table, the history is the empty list
\* and get_or_create_session (when keys.txt is complete) puts a new object in
\* the table, one that no stream holds, with an empty memory and a counter
\* of zero.
C9_Cleared(s) ==
    s \notin DOMAIN chat_sessions =>
        /\ get_chat_history(s) = <<>>
        /\ ConfigOk =>
              LET g == get_or_create_session(s)
              IN  /\ g.ok
                  /\ g.chat_sessions[s] = g.session
                  /\ g.session \notin DOMAIN heap
                  /\ \A p \in Reqs : streams[p].session # g.session
                  /\ g.heap[g.session].memory = <<>>
                  /\ g.heap[g.session].message_count = 0
                  /\ \A r \in DOMAIN heap : g.heap[r] = heap[r]

C9_ClearStartsFresh ==
    \A s \in SessionIds :
        /\ s \notin DOMAIN clear_chat_session(s)
        /\ C9_Cleared(s)

\* a session that held a turn has been cleared; a stream that started before
\* the clear still holds the old object
C9_Witness ==
    \E p \in Reqs :
        /\ streams[p].pc = "streaming"
        /\ streams[p].session_id \notin DOMAIN chat_sessions
        /\ heap[streams[p].session].memory # <<>>

-----------------------------------------------------------------------------
\* C10: a successful upload registers, under the sanitized name, exactly the
\* chunks of the uploaded version, whatever index the name had; the index
\* of a name changes in no other step than a successful upload or a delete
\* of that name; and the sources of every chat request, batch or streaming,
\* are chunks of the index registered when the request retrieves.
C10_ReuploadReplaces ==
    [][/\ <<uploaded_files, vector_stores, disk>>'
             # <<uploaded_files, vector_stores, disk>> =>
             \A f \in UploadNames, d \in Payloads, x \in {"none", "embed"} :
                (upload_pdf(f, d, x).status = 200 /\ Upload(f, d, x)) =>
                   vector_stores'[Basename(f)] = ChunksOf(d.doc)
       /\ vector_stores' # vector_stores =>
             \/ \E f \in UploadNames, d \in Payloads :
                   /\ upload_pdf(f, d, "none").status = 200
                   /\ Upload(f, d, "none")
                   /\ \A n \in DOMAIN vector_stores \ {Basename(f)} :
                         /\ n \in DOMAIN vector_stores'
                         /\ vector_stores'[n] = vector_stores[n]
             \/ \E f \in ChatNames, x \in {"none", "remove"} :
                   /\ Delete(f, x)
                   /\ vector_stores' = Pop(vector_stores, f)
       /\ nextReq' # nextReq =>
          \A s \in SessionIds, m \in UserMessages, f \in ChatNames \ {NoName} :
             /\ (/\ streams' = streams
                 /\ chat_message(nextReq + 1, s, m, f, "none").status = 200
                 /\ Chat(s, m, f, "none")) =>
                   Range(chat_message(nextReq + 1, s, m, f, "none").sources)
                       \subseteq Range(vector_stores[f])
             /\ (/\ streams'[nextReq + 1].pc = "streaming"
                 /\ StreamStart(s, m, f, "none")) =>
                   Range(streams'[nextReq + 1].sources)
                       \subseteq Range(vector_stores[f])]_vars

\* a.pdf was uploaded again with another content: its index is that of
\* version v2, and a stream that retrieved before holds a chunk of the old
\* version that the new one does not have
C10_Witness ==
    /\ A_PDF \in DOMAIN vector_stores
    /\ vector_stores[A_PDF] = ChunksOf("v2")
    /\ \E p \in Reqs :
          /\ streams[p].pc \in LivePcs
          /\ streams[p].filename = A_PDF
          /\ ~(Range(streams[p].sources) \subseteq Range(vector_stores[A_PDF]))

-----------------------------------------------------------------------------
\* C11: when keys.txt is missing or lacks one of the three required keys,
\* get_or_create_session on a session id that is not in the table fails and
\* returns the table and the session objects as they are; so the table never
\* holds a session.
C11_MissingConfigNoSession ==
    ~ConfigOk =>
        /\ chat_sessions = EmptyDict /\ heap = EmptyDict
        /\ \A s \in SessionIds :
              LET g == get_or_create_session(s)
              IN  /\ ~g.ok
                  /\ g.chat_sessions = chat_sessions
                  /\ s \notin DOMAIN g.chat_sessions
                  /\ g.heap = heap

\* keys.txt lacks one key, the document is live, and a stream on it has
\* ended with an error event without a session
C11_Witness ==
    /\ config # NoFile /\ ~ConfigOk
    /\ \E p \in Reqs :
          /\ streams[p].pc = "error_yielded"
          /\ streams[p].filename \in DOMAIN vector_stores
          /\ streams[p].session = 0

-----------------------------------------------------------------------------
\* C12: delete_file on a name that is not registered returns success = false
\* (it raises nothing, whether or not os.remove would fail) and returns the
\* two registries and the stored files as they are; the state being the
\* same, every further delete of the name gives the same.
C12_DeleteAbsentIsNoOp ==
    \A f \in UploadNames \cup ChatNames, x \in {"none", "remove"} :
        f \notin DOMAIN uploaded_files =>
            delete_file(f, x)
                = DeleteOutcome(FALSE, uploaded_files, vector_stores, disk)

\* a.pdf is not registered, and a file of that name is stored
C12_Witness ==
    /\ A_PDF \notin DOMAIN uploaded_files
    /\ PathOf(A_PDF) \in DOMAIN disk

-----------------------------------------------------------------------------
\* C13: an upload whose name does not end in .pdf (or is empty), or whose
\* payload is larger than MAX_SIZE, is answered with status 400 and returns
\* the two registries and the stored files as they are.
C13_InvalidUploadRejected ==
    \A f \in UploadNames, d \in Payloads,
       x \in {"none", "write", "embed"} :
        (f = NoName \/ Lower(f.ext) # "pdf" \/ d.size > 10 * 1024 * 1024) =>
            upload_pdf(f, d, x)
                = UploadOutcome(400, uploaded_files, vector_stores, disk)

\* a.pdf is live with the index of version v2, which an upload of the
\* oversized v1 under the same name must leave in place
C13_Witness ==
    /\ A_PDF \in DOMAIN vector_stores
    /\ vector_stores[A_PDF] = ChunksOf("v2")
    /\ \E d \in Payloads : d.doc = "v1" /\ d.size > MAX_SIZE

-----------------------------------------------------------------------------
\* C14: for a session that holds n messages, the prompt has, between the
\* context and the new user turn, the last min(n, 10) messages and no other,
\* in the order in which they were recorded, while get_chat_history returns
\* all n in that order; the prompt of a chat-stream request is built in this
\* way from the history the session shows when the request arrives; and a
\* chat or chat-stream request removes no message from the history.
C14_Rendered(m) ==
    <<IF m.role = "human" THEN "User:" ELSE "Assistant:">> \o m.content

C14_Recent(mem) ==
    LET n == Len(mem)
        w == IF n < 10 THEN n ELSE 10
    IN  [i \in 1..w |-> C14_Rendered(mem[n - w + i])]

C14_Prompt(context, mem, message) ==
    <<"SYSTEM">>
    \o (IF context # <<>> THEN <<"Document Context:">> \o context ELSE <<>>)
    \o (IF mem = <<>> THEN <<>>
        ELSE <<"Previous conversation:">>
             \o JoinSep(C14_Recent(mem), <<"\n">>))
    \o <<"User:">> \o message \o <<"Assistant:">>

C14_Session(s) ==
    LET mem == HistoryOf(s)
        shown == get_chat_history(s)
    IN  /\ \A c \in {<<>>, <<"c1">>} :
              build_strict_prompt(c, mem, <<"q2">>)
                 = C14_Prompt(c, mem, <<"q2">>)
        /\ Len(shown) = Len(mem)
        /\ \A i \in DOMAIN mem :
              /\ shown[i].content = mem[i].content
              /\ shown[i].role = IF mem[i].role = "human" THEN "user"
                                 ELSE "assistant"

C14_PromptWindow ==
    [][/\ nextReq = 0 => \A s \in SessionIds : C14_Session(s)
       /\ heap' # heap => \A s \in SessionIds : C14_Session(s)'
       /\ nextReq' # nextReq =>
             /\ \A s \in SessionIds :
                   /\ Len(HistoryOf(s)') >= Len(HistoryOf(s))
                   /\ SubSeq(HistoryOf(s)', 1, Len(HistoryOf(s))) = HistoryOf(s)
             /\ streams'[nextReq'].pc = "streaming" =>
                   streams'[nextReq'].prompt
                      = C14_Prompt(Context(streams'[nextReq'].sources),
                                   HistoryOf(streams'[nextReq'].session_id),
                                   streams'[nextReq'].message)]_vars

\* a stream was started on a session that held more than ten messages, all
\* of which the session still shows
C14_Witness ==
    \E p \in Reqs :
        /\ streams[p].pc = "streaming"
        /\ "Previous conversation:" \in Range(streams[p].prompt)
        /\ "first" \notin Range(streams[p].prompt)
        /\ Len(get_chat_history(streams[p].session_id)) > 10
        /\ "first" \in Range(get_chat_history(streams[p].session_id)[2].content)

-----------------------------------------------------------------------------
\* C15: in every state, whatever the sessions hold, ask_question answers 400
\* for a name without an index; otherwise, when keys.txt is complete and the
\* model call does not fail, it answers 200 and its source chunks are the 5
\* chunks of the index nearest to the question (all of them when the index
\* has fewer), nearest first, and its answer is the model's answer to the
\* question over these chunks and nothing else.
C15_AskIgnoresSessions ==
    \A f \in ChatNames, q \in UserMessages, x \in {"none", "llm"} :
        LET r == ask_question(f, q, x)
        IN  IF f \notin DOMAIN vector_stores THEN r.status = 400
            ELSE IF ~ConfigOk \/ x = "llm" THEN r.status = 500
            ELSE LET index == vector_stores[f]
                     out == r.source_chunks
                 IN  /\ r.status = 200
                     /\ Len(out) = IF Len(index) < 5 THEN Len(index) ELSE 5
                     /\ Range(out) \subseteq Range(index)
                     /\ \A i, j \in DOMAIN out :
                           i < j =>
                             /\ out[i] # out[j]
                             /\ Distance(q, out[i]) <= Distance(q, out[j])
                     /\ \A c \in Range(index) \ Range(out), i \in DOMAIN out :
                           Distance(q, out[i]) <= Distance(q, c)
                     /\ r.answer = Invoke(QAPrompt(Context(out), q))

\* a.pdf is live with an index of more than five chunks and session s1
\* holds a turn
C15_Witness ==
    /\ A_PDF \in DOMAIN vector_stores
    /\ Len(vector_stores[A_PDF]) > 5
    /\ HistoryOf("s1") # <<>>
    /\ ask_question(A_PDF, <<"q1">>, "none").status = 200

-----------------------------------------------------------------------------
\* C16: a stream that is neither waiting for a fragment nor disconnected
\* has sent a terminal event; one that has not succeeded has sent the error
\* event (success = false) as that terminal event, whichever stage raised;
\* a stream that has ended has sent the end-of-stream marker right after
\* its terminal event; and every stream that was started eventually sends
\* the marker, unless the caller disconnects.
C16_InBand(p) ==
    LET st == streams[p]
        ev == st.events
    IN  /\ st.pc \in {"final_yielded", "error_yielded"} =>
              /\ ev # <<>>
              /\ ev[Len(ev)].kind = "terminal"
              /\ ev[Len(ev)].success = (st.pc = "final_yielded")
        /\ st.pc = "error_yielded" => ev[Len(ev)] = ErrorEvent
        /\ st.pc = "done" =>
              /\ Len(ev) >= 2
              /\ ev[Len(ev)] = DoneEvent
              /\ ev[Len(ev) - 1].kind = "terminal"
              /\ st.committed_at = -1 => ev[Len(ev) - 1] = ErrorEvent

C16_AlwaysTerminalEvent ==
    /\ [](\A p \in Reqs : C16_InBand(p))
    /\ \A p \in Reqs :
          (streams[p].pc \in LivePcs) ~> (streams[p].pc \in {"done", "cancelled"})

\* a stream has ended after a fragment, the error event and the marker
C16_Witness ==
    \E p \in Reqs :
        /\ streams[p].pc = "done"
        /\ streams[p].committed_at = -1
        /\ Chunks(streams[p].events) # {}

-----------------------------------------------------------------------------
\* C17: a step changes what at most one session id shows (its presence in
\* the table, its history, its counter), and then the step is a chat, a
\* chat-stream or a clear request with that id, or the recording by a
\* stream that was started with that id; and unless the step is a clear of
\* the id, the history it showed is a prefix of the history it shows now and
\* its counter has not gone down.  Uploads, deletes, questions and history
\* requests change nothing that a session id shows.
C17_Changed ==
    {s \in SessionIds :
        \/ (s \in DOMAIN chat_sessions) # (s \in DOMAIN chat_sessions')
        \/ HistoryOf(s)' # HistoryOf(s)
        \/ CountOf(s)' # CountOf(s)}

C17_AppendOnly ==
    [][/\ Cardinality(C17_Changed) <= 1
       /\ \A s \in C17_Changed :
             /\ \/ Clear(s)
                \/ \E m \in UserMessages, f \in ChatNames,
                      x \in {"none", "retrieval", "llm"} :
                        Chat(s, m, f, x) \/ StreamStart(s, m, f, x)
                \/ \E p \in Reqs :
                      streams[p].session_id = s /\ StreamFinish(p)
             /\ ~Clear(s) =>
                   /\ Len(HistoryOf(s)') >= Len(HistoryOf(s))
                   /\ SubSeq(HistoryOf(s)', 1, Len(HistoryOf(s)))
                         = HistoryOf(s)
                   /\ CountOf(s)' >= CountOf(s)]_vars

\* both sessions hold a turn
C17_Witness ==
    /\ HistoryOf("s1") # <<>>
    /\ HistoryOf("s2") # <<>>

-----------------------------------------------------------------------------
\* C18: an upload whose ingestion fails (the file cannot be loaded, or the
\* embedding backend raises) leaves the shared state as it was: the document
\* registry and the index registry are unchanged, the step creates no stored
\* file for a name that is not a live document, and the stored file of a
\* live document is the one it was before the step.
C18_IngestionFails(n, p, f) ==
    /\ IsPdfName(n)
    /\ p.size <= MAX_SIZE
    /\ f # "write"
    /\ ~Loadable(p.doc) \/ f = "embed"

C18_RegistriesKept ==
    /\ uploaded_files' = uploaded_files
    /\ vector_stores' = vector_stores

C18_FilesKept(n) ==
    LET file_path == PathOf(Basename(n))
    IN  IF Basename(n) \in DOMAIN uploaded_files
        THEN /\ file_path \in DOMAIN disk'
             /\ file_path \in DOMAIN disk
             /\ disk'[file_path] = disk[file_path]
        ELSE file_path \in DOMAIN disk' => file_path \in DOMAIN disk

C18_FailedUploadLeavesState ==
    [][\A n \in UploadNames, p \in Payloads, f \in {"none", "embed"} :
         Upload(n, p, f) /\ C18_IngestionFails(n, p, f)
            => C18_RegistriesKept /\ C18_FilesKept(n)]_vars

-----------------------------------------------------------------------------
\* C19: in every reachable state every session of the table (and every
\* session object a running stream still holds) has twice as many recorded
\* messages as its counter says, the messages at odd positions are the
\* user's and those at even positions the assistant's, and get_chat_history
\* shows them with these roles.
C19_Paired(sess) ==
    /\ Len(sess.memory) = 2 * sess.message_count
    /\ \A i \in DOMAIN sess.memory :
          sess.memory[i].role = IF i % 2 = 1 THEN "human" ELSE "ai"

C19_CountMatchesAlternatingRoles ==
    /\ \A r \in DOMAIN heap : C19_Paired(heap[r])
    /\ \A s \in DOMAIN chat_sessions :
          /\ chat_sessions[s] \in DOMAIN heap
          /\ \A i \in DOMAIN get_chat_history(s) :
                get_chat_history(s)[i].role
                    = IF i % 2 = 1 THEN "user" ELSE "assistant"

\* a live session holds two turns, one of them recorded by a stream, the
\* other by a batch chat
C19_Witness ==
    \E p \in Reqs :
        /\ streams[p].pc = "final_yielded"
        /\ streams[p].session_id \in DOMAIN chat_sessions
        /\ CountOf(streams[p].session_id) = 2
        /\ \E i \in 1..4 :
              <<chat_sessions[streams[p].session_id], i>> \in RecordedBy(p)

-----------------------------------------------------------------------------
\* C20: a stream whose session was cleared while it was running holds an
\* object that the session table no longer refers to.  While it runs, and
\* in the state after each of its steps (the one that records its turn
\* included), no history of the table holds a message of the stream; the
\* history of its session id is empty as long as the id is not in the table;
\* and a session created for the id since the clear holds only turns of
\* requests that started after the stream did, with a counter of zero as long
\* as it holds none.
C20_Detached(p) ==
    /\ streams[p].pc \in LivePcs
    /\ streams[p].session \in DOMAIN heap
    /\ \/ streams[p].session_id \notin DOMAIN chat_sessions
       \/ chat_sessions[streams[p].session_id] # streams[p].session

C20_Hidden(p) ==
    LET s == streams[p].session_id
    IN  /\ s \notin DOMAIN chat_sessions => get_chat_history(s) = <<>>
        /\ \A i \in DOMAIN HistoryOf(s) : HistoryOf(s)[i].req > p
        /\ HistoryOf(s) = <<>> => CountOf(s) = 0
        /\ Len(HistoryOf(s)) = 2 * CountOf(s)

C20_ClearedStreamStaysDetached ==
    /\ [](\A p \in Reqs : C20_Detached(p) => C20_Hidden(p))
    /\ [][\A p \in Reqs : C20_Detached(p) =>
             \A s \in SessionIds : \A i \in DOMAIN HistoryOf(s)' :
                 HistoryOf(s)'[i].req # p]_vars

\* the stream has recorded its turn in the object it holds, and the table
\* has a newer session for the same id with one turn of a later request
C20_Witness ==
    \E p \in Reqs :
        /\ C20_Detached(p)
        /\ streams[p].pc = "final_yielded"
        /\ \E i \in 1..2 : <<streams[p].session, i>> \in RecordedBy(p)
        /\ CountOf(streams[p].session_id) = 1

====
